---------------------------- MODULE Spec2Model ----------------------------
(***************************************************************************)
(* Model of the go-ffmpeg transcode orchestration pipeline.                *)
(*                                                                         *)
(* Part 1 models the progress line parser (progress.go, newProgress) on    *)
(* lines represented as sequences of one-character strings, so that the    *)
(* prefix test, the tokenisation and the field conversions are computed    *)
(* as the Go code computes them.                                           *)
(*                                                                         *)
(* Part 2 models the drop-on-no-listener orchestrator (first Ffmpeg.Start  *)
(* and Ffmpeg.cleanUp of ffmpeg.go) as a state machine of four parties:    *)
(* the task that calls Start, the reader goroutine, the ffmpeg subprocess  *)
(* with the cancellation context, and the consumer of the three channels.  *)
(***************************************************************************)
EXTENDS Integers, Sequences, FiniteSets, TLC

(***************************************************************************)
(* Bounds of the model.                                                    *)
(***************************************************************************)
\* Number of diagnostic lines the subprocess writes to stderr in one run.
MaxLines == 2

(***************************************************************************)
(* Part 1: the progress line parser.                                       *)
(***************************************************************************)

\* unicode.IsLetter restricted to the ASCII letters.
Letters ==
  {"a","b","c","d","e","f","g","h","i","j","k","l","m","n","o","p","q","r",
   "s","t","u","v","w","x","y","z","A","B","C","D","E","F","G","H","I","J",
   "K","L","M","N","O","P","Q","R","S","T","U","V","W","X","Y","Z"}

\* unicode.IsNumber restricted to the ASCII digits.
Digits ==
  {"0","1","2","3","4","5","6","7","8","9"}

\* Value of a decimal digit character.
DigitVal(c) ==
  CASE c = "0" -> 0 [] c = "1" -> 1 [] c = "2" -> 2 [] c = "3" -> 3
    [] c = "4" -> 4 [] c = "5" -> 5 [] c = "6" -> 6 [] c = "7" -> 7
    [] c = "8" -> 8 [] c = "9" -> 9

\* Lower-case form of the letters the float syntax looks at.
ToLower(c) ==
  CASE c = "E" -> "e" [] c = "I" -> "i" [] c = "N" -> "n" [] c = "F" -> "f"
    [] c = "A" -> "a" [] c = "T" -> "t" [] c = "Y" -> "y"
    [] OTHER -> c

\* The error sentinels of errors.go; "nil" is the absence of an error.
ErrNoProgressInformation == "ErrNoProgressInformation"
ErrWrongNumberOfFields == "ErrWrongNumberOfFields"
ErrFrameNumber == "ErrFrameNumber"
ErrFPS == "ErrFPS"
ErrQ == "ErrQ"
ErrSize == "ErrSize"
ErrTime == "ErrTime"
ErrBitrate == "ErrBitrate"
ErrDup == "ErrDup"
ErrDrop == "ErrDrop"
ErrSpeed == "ErrSpeed"
ErrStdErrPipe == "ErrStdErrPipe"

\* Indices of the progress fields, shifted by one: Go slices start at 0,
\* TLA+ sequences at 1.
FrameIndex == 1 + 1
FPSIndex == 3 + 1
QIndex == 5 + 1
SizeIndex == 7 + 1
TimeIndex == 9 + 1
BitrateIndex == 11 + 1
DupIndex == 13 + 1
DropIndex == 15 + 1
SpeedIndex == 17 + 1

\* The number of tokens newProgress requires.
NumFields == 18

\* strings.HasPrefix
HasPrefix(s, prefix) ==
  /\ Len(s) >= Len(prefix)
  /\ SubSeq(s, 1, Len(prefix)) = prefix

\* The literal "frame=" newProgress looks for.
FramePrefix ==
  <<"f","r","a","m","e","=">>

\* The separator predicate handed to strings.FieldsFunc.
fieldsFunc(c) ==
  /\ c \notin Letters
  /\ c \notin Digits
  /\ c # "."
  /\ c # "-"
  /\ c # ":"
  /\ c # "/"

\* Start positions of the spans strings.FieldsFunc records: a non-separator
\* that is first in the line or follows a separator.
SpanStarts(s) ==
  {i \in 1..Len(s) : ~fieldsFunc(s[i]) /\ (i = 1 \/ fieldsFunc(s[i - 1]))}

\* End position of the span that starts at i: the last non-separator before
\* the next separator or the end of the line.
SpanEnd(s, i) ==
  CHOOSE j \in i..Len(s) :
    /\ \A k \in i..j : ~fieldsFunc(s[k])
    /\ (j = Len(s) \/ fieldsFunc(s[j + 1]))

\* Start position of the k-th span.
SpanStart(s, k) ==
  CHOOSE i \in SpanStarts(s) : Cardinality({j \in SpanStarts(s) : j < i}) = k - 1

\* strings.FieldsFunc(line, fieldsFunc): the maximal runs of non-separators,
\* in order.
FieldsFunc(s) ==
  [k \in 1..Cardinality(SpanStarts(s)) |->
     SubSeq(s, SpanStart(s, k), SpanEnd(s, SpanStart(s, k)))]

RECURSIVE TrimRight(_, _)
\* strings.TrimRight: drop trailing characters that are in the cutset.
TrimRight(s, cutset) ==
  IF s # <<>> /\ s[Len(s)] \in cutset
    THEN TrimRight(SubSeq(s, 1, Len(s) - 1), cutset)
    ELSE s

RECURSIVE SplitFrom(_, _, _, _, _)
\* Scan of strings.Split from position i on the one-character separator.
SplitFrom(s, sep, i, cur, acc) ==
  IF i > Len(s)
    THEN Append(acc, cur)
    ELSE IF s[i] = sep
      THEN SplitFrom(s, sep, i + 1, <<>>, Append(acc, cur))
      ELSE SplitFrom(s, sep, i + 1, Append(cur, s[i]), acc)

\* strings.Split(s, sep) for a one-character separator.
Split(s, sep) ==
  SplitFrom(s, sep, 1, <<>>, <<>>)

\* TRUE iff s is a non-empty run of decimal digits.
AllDigits(s) ==
  /\ s # <<>>
  /\ \A i \in 1..Len(s) : s[i] \in Digits

RECURSIVE DigitsValue(_)
\* The number a run of decimal digits denotes.
DigitsValue(s) ==
  IF s = <<>>
    THEN 0
    ELSE 10 * DigitsValue(SubSeq(s, 1, Len(s) - 1)) + DigitVal(s[Len(s)])

\* s without one leading sign character.
StripSign(s) ==
  IF s # <<>> /\ s[1] \in {"+", "-"} THEN Tail(s) ELSE s

\* strconv.Atoi: an optional sign followed by at least one decimal digit.
\* ok is FALSE where Atoi returns an error.
Atoi(s) ==
  LET body == StripSign(s)
  IN IF AllDigits(body)
       THEN [ok |-> TRUE,
             val |-> IF s[1] = "-" THEN 0 - DigitsValue(body) ELSE DigitsValue(body)]
       ELSE [ok |-> FALSE, val |-> 0]

\* The lower-case form of a token.
LowerSeq(s) ==
  [i \in 1..Len(s) |-> ToLower(s[i])]

\* strconv's special(): "inf", "infinity" with an optional sign, "nan"
\* without one, in any letter case.
IsSpecialFloat(s) ==
  \/ LowerSeq(StripSign(s)) \in {<<"i","n","f">>, <<"i","n","f","i","n","i","t","y">>}
  \/ LowerSeq(s) = <<"n","a","n">>

\* Positions of an exponent marker in s.
ExpPositions(s) ==
  {i \in 1..Len(s) : ToLower(s[i]) = "e"}

\* The mantissa of a decimal float: digits with at most one ".", and at
\* least one digit.
IsMantissa(s) ==
  /\ \A i \in 1..Len(s) : s[i] \in Digits \cup {"."}
  /\ Cardinality({i \in 1..Len(s) : s[i] = "."}) <= 1
  /\ \E i \in 1..Len(s) : s[i] \in Digits

\* strconv's readFloat for base 10: mantissa, then optionally "e", an
\* optional sign and at least one digit; the whole token must be consumed.
IsDecimalFloat(s) ==
  LET body == StripSign(s)
      exps == ExpPositions(body)
  IN IF exps = {}
       THEN IsMantissa(body)
       ELSE LET e == CHOOSE i \in exps : \A j \in exps : i <= j
            IN /\ IsMantissa(SubSeq(body, 1, e - 1))
               /\ AllDigits(StripSign(SubSeq(body, e + 1, Len(body))))

\* The model holds a float64 as a record: kind is "num", "inf", "-inf" or
\* "nan", and for a number val is its value in units of 1/FloatScale.
FloatScale == 1000

\* The float64 with the given value in units of 1/FloatScale.
Float(v) ==
  [kind |-> "num", val |-> v]

RECURSIVE Pow10(_)
\* 10 to the power n.
Pow10(n) ==
  IF n = 0 THEN 1 ELSE 10 * Pow10(n - 1)

\* Value, in units of 1/FloatScale, of a mantissa: the integer digits, and
\* the first three fraction digits.
MantissaValue(m) ==
  LET dots == {i \in 1..Len(m) : m[i] = "."}
      d == IF dots = {} THEN Len(m) + 1 ELSE CHOOSE i \in dots : TRUE
      frac == SubSeq(m, d + 1, Len(m)) \o <<"0", "0", "0">>
  IN DigitsValue(SubSeq(m, 1, d - 1)) * FloatScale + DigitsValue(SubSeq(frac, 1, 3))

\* mant times 10 to the power expo, for a sign character of "-" negated.
ScaleDecimal(sign, mant, expo) ==
  IF sign = "-"
    THEN 0 - (IF expo >= 0 THEN mant * Pow10(expo) ELSE mant \div Pow10(0 - expo))
    ELSE IF expo >= 0 THEN mant * Pow10(expo) ELSE mant \div Pow10(0 - expo)

\* Value of the unsigned decimal body whose exponent marker, if any, is at
\* position e (one past the end when there is none).
BodyValue(sign, body, e) ==
  ScaleDecimal(sign,
               MantissaValue(SubSeq(body, 1, e - 1)),
               IF e > Len(body) THEN 0 ELSE Atoi(SubSeq(body, e + 1, Len(body))).val)

\* Value, in units of 1/FloatScale, of a token IsDecimalFloat accepts.
DecimalValue(s) ==
  BodyValue(s[1],
            StripSign(s),
            IF ExpPositions(StripSign(s)) = {}
              THEN Len(StripSign(s)) + 1
              ELSE CHOOSE i \in ExpPositions(StripSign(s)) :
                     \A j \in ExpPositions(StripSign(s)) : i <= j)

\* strconv.ParseFloat(s, 64): ok is FALSE where it returns an error,
\* otherwise kind and val are the float64 it returns.
ParseFloat(s) ==
  IF IsSpecialFloat(s)
    THEN [ok |-> TRUE,
          kind |-> IF LowerSeq(s) = <<"n","a","n">> THEN "nan"
                   ELSE IF s[1] = "-" THEN "-inf" ELSE "inf",
          val |-> 0]
    ELSE IF IsDecimalFloat(s)
      THEN [ok |-> TRUE, kind |-> "num", val |-> DecimalValue(s)]
      ELSE [ok |-> FALSE, kind |-> "num", val |-> 0]

\* The float64 a successful ParseFloat returned.
FloatOf(r) ==
  [kind |-> r.kind, val |-> r.val]

\* Cutsets of the three strings.TrimRight calls of newProgress.
CutsetKiB ==
  {"K", "i", "B"}

CutsetKbits ==
  {"k", "b", "i", "t", "/", "s"}

CutsetX ==
  {"x"}

\* The time field: exactly three ":"-separated parts, hours and minutes
\* integers, seconds a float.
TimeOk(tok) ==
  LET splitTime == Split(tok, ":")
  IN /\ Len(splitTime) = 3
     /\ Atoi(splitTime[1]).ok
     /\ Atoi(splitTime[2]).ok
     /\ ParseFloat(splitTime[3]).ok

\* The field conversions with the bitrate converted before the time.
FieldError_BitrateBeforeTime(fields) ==
  IF ~Atoi(fields[FrameIndex]).ok THEN ErrFrameNumber
  ELSE IF ~ParseFloat(fields[FPSIndex]).ok THEN ErrFPS
  ELSE IF ~ParseFloat(fields[QIndex]).ok THEN ErrQ
  ELSE IF ~ParseFloat(TrimRight(fields[SizeIndex], CutsetKiB)).ok THEN ErrSize
  ELSE IF ~ParseFloat(TrimRight(fields[BitrateIndex], CutsetKbits)).ok THEN ErrBitrate
  ELSE IF ~TimeOk(fields[TimeIndex]) THEN ErrTime
  ELSE IF ~Atoi(fields[DupIndex]).ok THEN ErrDup
  ELSE IF ~Atoi(fields[DropIndex]).ok THEN ErrDrop
  ELSE IF ~ParseFloat(TrimRight(fields[SpeedIndex], CutsetX)).ok THEN ErrSpeed
  ELSE "nil"

\* The failure of the field conversions of newProgress, in the order the
\* code performs them; "nil" when every field converts.
FieldError(fields) ==
  IF ~Atoi(fields[FrameIndex]).ok THEN ErrFrameNumber
  ELSE IF ~ParseFloat(fields[FPSIndex]).ok THEN ErrFPS
  ELSE IF ~ParseFloat(fields[QIndex]).ok THEN ErrQ
  ELSE IF ~ParseFloat(TrimRight(fields[SizeIndex], CutsetKiB)).ok THEN ErrSize
  ELSE IF ~TimeOk(fields[TimeIndex]) THEN ErrTime
  ELSE IF ~ParseFloat(TrimRight(fields[BitrateIndex], CutsetKbits)).ok THEN ErrBitrate
  ELSE IF ~Atoi(fields[DupIndex]).ok THEN ErrDup
  ELSE IF ~Atoi(fields[DropIndex]).ok THEN ErrDrop
  ELSE IF ~ParseFloat(TrimRight(fields[SpeedIndex], CutsetX)).ok THEN ErrSpeed
  ELSE "nil"

\* time.Duration values are held in milliseconds (Go holds nanoseconds).
Second == 1000
Minute == 60 * Second
Hour == 60 * Minute

\* Integer quotient rounded toward zero, as Go's conversions round.
TruncDiv(a, b) ==
  LET qa == IF a < 0 THEN 0 - a ELSE a
      qb == IF b < 0 THEN 0 - b ELSE b
  IN IF (a < 0) = (b < 0) THEN qa \div qb ELSE 0 - (qa \div qb)

\* time.Duration(f) for a float64 f: the fraction is discarded.  def is
\* FALSE for an infinity or a NaN, whose conversion to an integer is left
\* to the implementation by the language; val then carries no meaning.
DurationOfFloat(f) ==
  IF f.kind = "num"
    THEN [def |-> TRUE, val |-> TruncDiv(f.val, FloatScale)]
    ELSE [def |-> FALSE, val |-> 0]

\* time.Duration(hours)*time.Hour + time.Duration(minutes)*time.Minute +
\* time.Duration(seconds)*time.Second, seconds already converted to a
\* duration.
SumTime(hours, minutes, seconds) ==
  [def |-> seconds.def,
   val |-> hours * Hour + minutes * Minute + seconds.val * Second]

\* The time through the file of the parts of a split time token.
SplitTimeValue(splitTime) ==
  SumTime(Atoi(splitTime[1]).val,
          Atoi(splitTime[2]).val,
          DurationOfFloat(FloatOf(ParseFloat(splitTime[3]))))

\* The time through the file for a time token TimeOk accepts.
TimeThroughFile(tok) ==
  SplitTimeValue(Split(tok, ":"))

\* float64(timeThroughFile) / float64(duration) * 100
PercentOf(timeThroughFile, duration) ==
  IF duration = 0
    THEN [kind |-> IF timeThroughFile = 0 THEN "nan"
                   ELSE IF timeThroughFile > 0 THEN "inf" ELSE "-inf",
          val |-> 0]
    ELSE LET n == 100 * (IF timeThroughFile < 0 THEN 0 - timeThroughFile
                         ELSE timeThroughFile)
             d == IF duration < 0 THEN 0 - duration ELSE duration
             mag == (n \div d) * FloatScale + ((n % d) * FloatScale) \div d
         IN Float(IF (timeThroughFile < 0) = (duration < 0) THEN mag ELSE 0 - mag)

\* time.Duration(float64(timeTaken) / percentComplete * (100 - percentComplete)),
\* computed as timeTaken * 100 / percentComplete - timeTaken and rounded
\* toward zero.  zeroDivisor records that percentComplete was zero when it
\* was divided by; the quotient is then an infinity or a NaN.
TimeRemainingOf(timeTaken, percentComplete) ==
  IF percentComplete.kind = "num" /\ percentComplete.val # 0
    THEN LET v == percentComplete.val
             n == timeTaken * 100 * FloatScale
             num == IF v < 0 THEN 0 - n ELSE n
             den == IF v < 0 THEN 0 - v ELSE v
             floor == num \div den
             ceil == 0 - ((0 - num) \div den)
         IN [def |-> TRUE, zeroDivisor |-> FALSE,
             val |-> IF floor >= timeTaken THEN floor - timeTaken
                     ELSE ceil - timeTaken]
    ELSE [def |-> FALSE,
          zeroDivisor |-> (percentComplete.kind = "num"),
          val |-> 0]

\* The (nil, err) result of newProgress.
NilProgress(err) ==
  [err |-> err]

\* The Progress record newProgress of progress.go returns, from the tokens
\* and the three values computed from them.  defined is FALSE when a
\* duration was converted from an infinity or a NaN.  InputFile, OutputFile
\* and the start time are passed through by the code; EstimatedFinishTime
\* is kept as its distance from the start time.
ProgressRecord(fields, timeThroughFile, percentComplete, timeRemaining, timeTaken) ==
  [err |-> "nil",
   Frame |-> Atoi(fields[FrameIndex]).val,
   FPS |-> FloatOf(ParseFloat(fields[FPSIndex])),
   Q |-> FloatOf(ParseFloat(fields[QIndex])),
   Size |-> FloatOf(ParseFloat(TrimRight(fields[SizeIndex], CutsetKiB))),
   Time |-> timeThroughFile.val,
   Bitrate |-> FloatOf(ParseFloat(TrimRight(fields[BitrateIndex], CutsetKbits))),
   Dup |-> Atoi(fields[DupIndex]).val,
   Drop |-> Atoi(fields[DropIndex]).val,
   Speed |-> FloatOf(ParseFloat(TrimRight(fields[SpeedIndex], CutsetX))),
   PercentComplete |-> percentComplete,
   TimeRemaining |-> timeRemaining.val,
   EstimatedFinishTime |-> timeTaken + timeRemaining.val,
   zeroDivisor |-> timeRemaining.zeroDivisor,
   defined |-> timeThroughFile.def /\ timeRemaining.def]

\* timeRemaining is computed from percentComplete as it stands.
WithPercent(fields, timeThroughFile, percentComplete, timeTaken) ==
  ProgressRecord(fields, timeThroughFile, percentComplete,
                 TimeRemainingOf(timeTaken, percentComplete), timeTaken)

\* percentComplete is computed from timeThroughFile and the duration.
WithTime(fields, timeThroughFile, duration, timeTaken) ==
  WithPercent(fields, timeThroughFile,
              PercentOf(timeThroughFile.val, duration), timeTaken)

\* The record newProgress of progress.go builds from 18 tokens that all
\* convert.
ProgressOf(fields, duration, timeTaken) ==
  WithTime(fields, TimeThroughFile(fields[TimeIndex]), duration, timeTaken)

\* (nil, err) for a failed conversion, the record otherwise.
Converted(fields, err, duration, timeTaken) ==
  IF err # "nil" THEN NilProgress(err) ELSE ProgressOf(fields, duration, timeTaken)

\* newProgress with the marker test returning a fresh error value instead of
\* the ErrNoProgressInformation sentinel.
newProgress_FreshError(text, duration, timeTaken) ==
  IF ~HasPrefix(text, FramePrefix)
    THEN NilProgress("line does not contain progress information")
    ELSE IF Len(FieldsFunc(text)) # NumFields
      THEN NilProgress(ErrWrongNumberOfFields)
      ELSE Converted(FieldsFunc(text), FieldError(FieldsFunc(text)),
                     duration, timeTaken)

\* newProgress rejecting only lines with fewer than 18 tokens.
newProgress_AtLeast(text, duration, timeTaken) ==
  IF ~HasPrefix(text, FramePrefix)
    THEN NilProgress(ErrNoProgressInformation)
    ELSE IF Len(FieldsFunc(text)) < NumFields
      THEN NilProgress(ErrWrongNumberOfFields)
      ELSE Converted(FieldsFunc(text), FieldError(FieldsFunc(text)),
                     duration, timeTaken)

\* newProgress of progress.go: err is the returned error; when it is "nil"
\* the other fields are those of the returned Progress record.
newProgress(text, duration, timeTaken) ==
  IF ~HasPrefix(text, FramePrefix)
    THEN NilProgress(ErrNoProgressInformation)
    ELSE IF Len(FieldsFunc(text)) # NumFields
      THEN NilProgress(ErrWrongNumberOfFields)
      ELSE Converted(FieldsFunc(text), FieldError(FieldsFunc(text)),
                     duration, timeTaken)

\* strings.TrimSpace restricted to the ASCII white space.
WhiteSpace ==
  {" ", "\t", "\n", "\r"}

RECURSIVE TrimLeft(_, _)
\* strings.TrimLeft: drop leading characters that are in the cutset.
TrimLeft(s, cutset) ==
  IF s # <<>> /\ s[1] \in cutset THEN TrimLeft(Tail(s), cutset) ELSE s

\* strings.TrimSpace
TrimSpace(s) ==
  TrimLeft(TrimRight(s, WhiteSpace), WhiteSpace)

\* The field names the scan loop of the name-scanning newProgress looks
\* for.
Names ==
  [frame |-> <<"f","r","a","m","e">>,
   fps |-> <<"f","p","s">>,
   q |-> <<"q">>,
   size |-> <<"s","i","z","e">>,
   time |-> <<"t","i","m","e">>,
   bitrate |-> <<"b","i","t","r","a","t","e">>,
   speed |-> <<"s","p","e","e","d">>]

\* The literal "N/A" ffmpeg prints for a value it does not know yet.
NotAvailable == <<"N","/","A">>

\* The index the scan loop leaves for a name: i + 1 for the last token at
\* Go index i that equals the name, 0 when no token does.  With sequences
\* starting at 1 that is the position of the token itself.
ScanIndex(fields, name) ==
  LET hits == {i \in 1..Len(fields) : fields[i] = name}
  IN IF hits = {} THEN 0 ELSE CHOOSE i \in hits : \A j \in hits : j <= i

\* idx != 0 && idx < len(fields)
InRange(idx, fields) ==
  idx # 0 /\ idx < Len(fields)

\* The time token of the name-scanning newProgress: "N/A" or a time.
ScanTimeOk(tok) ==
  tok = NotAvailable \/ TimeOk(tok)

\* Its value: zero for "N/A".
ScanTimeThroughFile(tok) ==
  IF tok = NotAvailable THEN [def |-> TRUE, val |-> 0] ELSE TimeThroughFile(tok)

\* The bitrate and speed tokens of the name-scanning newProgress: zero for
\* "N/A", otherwise the float left after trimming the unit.
ScanFloat(tok, cutset) ==
  IF tok = NotAvailable
    THEN [ok |-> TRUE, kind |-> "num", val |-> 0]
    ELSE ParseFloat(TrimRight(tok, cutset))

\* The failure of the field conversions of the name-scanning newProgress,
\* in the order the code performs them, for the indices the scan loop
\* left; "nil" when every field is found and converts.  The value of a
\* field is the token after its name.
ScanFieldErrorAt(fields, frameIndex, fpsIndex, qIndex, sizeIndex, timeIndex, bitrateIndex, speedIndex) ==
  IF ~InRange(frameIndex, fields) \/ ~Atoi(fields[frameIndex + 1]).ok
    THEN ErrFrameNumber
  ELSE IF ~InRange(fpsIndex, fields) \/ ~ParseFloat(fields[fpsIndex + 1]).ok
    THEN ErrFPS
  ELSE IF ~InRange(qIndex, fields) \/ ~ParseFloat(fields[qIndex + 1]).ok
    THEN ErrQ
  ELSE IF \/ ~InRange(sizeIndex, fields)
          \/ ~ParseFloat(TrimRight(fields[sizeIndex + 1], CutsetKiB)).ok
    THEN ErrSize
  ELSE IF ~InRange(timeIndex, fields) \/ ~ScanTimeOk(fields[timeIndex + 1])
    THEN ErrTime
  ELSE IF \/ ~InRange(bitrateIndex, fields)
          \/ ~ScanFloat(fields[bitrateIndex + 1], CutsetKbits).ok
    THEN ErrBitrate
  ELSE IF \/ ~InRange(speedIndex, fields)
          \/ ~ScanFloat(fields[speedIndex + 1], CutsetX).ok
    THEN ErrSpeed
  ELSE "nil"

\* The same with the indices of the scan loop.
ScanFieldError(fields) ==
  ScanFieldErrorAt(fields,
                   ScanIndex(fields, Names.frame), ScanIndex(fields, Names.fps),
                   ScanIndex(fields, Names.q), ScanIndex(fields, Names.size),
                   ScanIndex(fields, Names.time), ScanIndex(fields, Names.bitrate),
                   ScanIndex(fields, Names.speed))

\* The Progress record the name-scanning newProgress returns; its struct
\* has no Dup and no Drop field.
ScanRecord(fields, timeThroughFile, percentComplete, timeRemaining, timeTaken) ==
  [err |-> "nil",
   Frame |-> Atoi(fields[ScanIndex(fields, Names.frame) + 1]).val,
   FPS |-> FloatOf(ParseFloat(fields[ScanIndex(fields, Names.fps) + 1])),
   Q |-> FloatOf(ParseFloat(fields[ScanIndex(fields, Names.q) + 1])),
   Size |-> FloatOf(ParseFloat(
              TrimRight(fields[ScanIndex(fields, Names.size) + 1], CutsetKiB))),
   Time |-> timeThroughFile.val,
   Bitrate |-> FloatOf(ScanFloat(fields[ScanIndex(fields, Names.bitrate) + 1],
                                 CutsetKbits)),
   Speed |-> FloatOf(ScanFloat(fields[ScanIndex(fields, Names.speed) + 1],
                               CutsetX)),
   PercentComplete |-> percentComplete,
   TimeRemaining |-> timeRemaining.val,
   EstimatedFinishTime |-> timeTaken + timeRemaining.val,
   zeroDivisor |-> timeRemaining.zeroDivisor,
   defined |-> timeThroughFile.def /\ timeRemaining.def]

\* timeRemaining is computed from the clamped percentComplete.
ScanWithPercent(fields, timeThroughFile, percentComplete, timeTaken) ==
  ScanRecord(fields, timeThroughFile, percentComplete,
             TimeRemainingOf(timeTaken, percentComplete), timeTaken)

\* if percentComplete == 0 { percentComplete = 0.01 }
Clamp(percentComplete) ==
  IF percentComplete = Float(0) THEN Float(FloatScale \div 100) ELSE percentComplete

\* percentComplete is computed from timeThroughFile and the duration, and
\* clamped.
ScanWithTime(fields, timeThroughFile, duration, timeTaken) ==
  ScanWithPercent(fields, timeThroughFile,
                  Clamp(PercentOf(timeThroughFile.val, duration)), timeTaken)

\* The record the name-scanning newProgress builds from tokens whose
\* fields are all found and convert.
ScanProgressOf(fields, duration, timeTaken) ==
  ScanWithTime(fields,
               ScanTimeThroughFile(fields[ScanIndex(fields, Names.time) + 1]),
               duration, timeTaken)

\* (nil, err) for a failed conversion, the record otherwise.
ScanConverted(fields, err, duration, timeTaken) ==
  IF err # "nil"
    THEN NilProgress(err)
    ELSE ScanProgressOf(fields, duration, timeTaken)

\* strings.TrimSpace applied to every token, as the scan loop does.
TrimAll(raw) ==
  [i \in 1..Len(raw) |-> TrimSpace(raw[i])]

\* newProgress of the name-scanning revision of progress.go.
newProgressScan(text, duration, timeTaken) ==
  IF ~HasPrefix(text, FramePrefix)
    THEN NilProgress(ErrNoProgressInformation)
    ELSE ScanConverted(TrimAll(FieldsFunc(text)),
                       ScanFieldError(TrimAll(FieldsFunc(text))),
                       duration, timeTaken)

(***************************************************************************)
(* Diagnostic lines the subprocess may write, each ending with the         *)
(* carriage return that ReadString('\r') reads up to and including.        *)
(***************************************************************************)

\* frame=  100 fps= 25 q=28.0 size=    2048KiB time=00:00:10.00 bitrate= 512.0kbit/s dup=0 drop=0 speed=1.02x\r
LineFull ==
  <<
    "f","r","a","m","e","="," "," ","1","0","0"," ","f","p","s","="," ","2",
    "5"," ","q","=","2","8",".","0"," ","s","i","z","e","="," "," "," "," ",
    "2","0","4","8","K","i","B"," ","t","i","m","e","=","0","0",":","0","0",
    ":","1","0",".","0","0"," ","b","i","t","r","a","t","e","="," ","5","1",
    "2",".","0","k","b","i","t","/","s"," ","d","u","p","=","0"," ","d","r",
    "o","p","=","0"," ","s","p","e","e","d","=","1",".","0","2","x","\r"
  >>

\* Input #0, frame=1\r
LineBanner ==
  <<
    "I","n","p","u","t"," ","#","0",","," ","f","r","a","m","e","=","1","\r"
  >>

\* frame=abc fps=25 q=28.0 size=2048KiB time=00:00:10.00 bitrate=512.0kbit/s dup=0 drop=0 speed=1.02x\r
LineBadFrame ==
  <<
    "f","r","a","m","e","=","a","b","c"," ","f","p","s","=","2","5"," ","q",
    "=","2","8",".","0"," ","s","i","z","e","=","2","0","4","8","K","i","B",
    " ","t","i","m","e","=","0","0",":","0","0",":","1","0",".","0","0"," ",
    "b","i","t","r","a","t","e","=","5","1","2",".","0","k","b","i","t","/",
    "s"," ","d","u","p","=","0"," ","d","r","o","p","=","0"," ","s","p","e",
    "e","d","=","1",".","0","2","x","\r"
  >>

\* frame=  100 fps= 25 q=28.0 size=    2048KiB time=00:00:10.00 bitrate= 512.0kbit/s speed=1.02x\r
LineNoDupDrop ==
  <<
    "f","r","a","m","e","="," "," ","1","0","0"," ","f","p","s","="," ","2",
    "5"," ","q","=","2","8",".","0"," ","s","i","z","e","="," "," "," "," ",
    "2","0","4","8","K","i","B"," ","t","i","m","e","=","0","0",":","0","0",
    ":","1","0",".","0","0"," ","b","i","t","r","a","t","e","="," ","5","1",
    "2",".","0","k","b","i","t","/","s"," ","s","p","e","e","d","=","1",".",
    "0","2","x","\r"
  >>

\*  frame=1 fps=25\r
LineLeadingSpace ==
  <<
    " ","f","r","a","m","e","=","1"," ","f","p","s","=","2","5","\r"
  >>

\* Frame=1 fps=25\r
LineUpper ==
  <<
    "F","r","a","m","e","=","1"," ","f","p","s","=","2","5","\r"
  >>

\* frame\r
LineShort ==
  <<
    "f","r","a","m","e","\r"
  >>

\* \r
LineOnlyCR ==
  <<
    "\r"
  >>


\* The lines above, by number.
LineTable ==
  <<LineFull, LineBanner, LineBadFrame, LineNoDupDrop,
    LineLeadingSpace, LineUpper, LineShort, LineOnlyCR>>

\* f.duration of the run of the orchestrator model: 100 seconds.
RunDuration ==
  100 * Second

\* time.Since(f.startTime) at the calls of newProgress: 5 seconds.
RunTimeTaken ==
  5 * Second

\* The result of newProgress for every line of the table, as a tuple.
Outcome ==
  SubSeq([i \in DOMAIN LineTable |->
            newProgress(LineTable[i], RunDuration, RunTimeTaken)],
         1, Len(LineTable))

\* The lines the subprocess of the orchestrator model writes: a progress
\* line, a line without the marker, and a malformed progress line.
EmitLines ==
  {1, 2, 3}

(***************************************************************************)
(* Part 2: the drop-on-no-listener orchestrator.                           *)
(***************************************************************************)

\* The three channels of the Ffmpeg struct.
Chans ==
  {"Progress", "Error", "Done"}

\* The value of parseOut before newProgress has been called.
NotCalled ==
  NilProgress("not called")

\* The zero Progress{} record cleanUp sends after a delivered Done <- true;
\* also the value of the reader's line variable when it holds no line.
EmptyRecord ==
  [pos |-> 0, id |-> 0]

VARIABLES
  callerPc,        \* position of the task that called Start
  startResult,     \* what Start returned: "none" until it returns
  runErr,          \* the error command.Run() handed back to Start
  readerPc,        \* position of the reader goroutine
  curLine,            \* the line the reader holds after ReadString
  fatalErr,        \* the parse failure the reader escalated, or "none"
  procState,       \* "notstarted", "running", "exited" or "failed"
  exitErr,         \* exit outcome of the subprocess: "none", "nil" or "err"
  outputOpened,    \* the subprocess has created the destination file
  fileExists,      \* the destination path exists
  cancelled,       \* the cancellation context is done
  cancelledWhileRunning, \* the context was cancelled while the subprocess ran
  pipe,            \* lines written to stderr that the reader can still read
  emitted,         \* number of lines the subprocess has written
  readClosed,      \* the read end of the stderr pipe has been closed
  closed,          \* closed[c]: channel c has been closed
  closeCount,      \* closeCount[c]: number of close(c) calls
  removeCount,     \* number of os.Remove(outputFile) calls
  listening,       \* channels a consumer is currently parked receiving on
  progressRecv,    \* records the consumer received from Progress
  errorRecv,       \* errors the consumer received from Error
  doneRecv,        \* values the consumer received from a send on Done
  doneClosedSeen,  \* the consumer received the zero value of the closed Done
  parseIn,         \* the arguments of a newProgress call, or "none"
  parseOut,        \* what that call returned, or "none"
  ctor             \* the position and effects of a NewFfmpeg call

callerVars == <<callerPc, startResult, runErr>>
readerVars == <<readerPc, curLine, fatalErr>>
procVars == <<procState, exitErr, outputOpened, emitted>>
ctxVars == <<cancelled, cancelledWhileRunning>>
chanVars == <<closed, closeCount>>
consumerVars == <<listening, progressRecv, errorRecv, doneRecv, doneClosedSeen>>
auxVars == <<parseIn, parseOut, ctor>>

vars ==
  <<callerPc, startResult, runErr, readerPc, curLine, fatalErr, procState,
    exitErr, outputOpened, fileExists, cancelled, cancelledWhileRunning,
    pipe, emitted, readClosed, closed, closeCount, removeCount, listening,
    progressRecv, errorRecv, doneRecv, doneClosedSeen, parseIn, parseOut,
    ctor>>

\* The state NewFfmpeg returns: three open unbuffered channels, a command
\* that has not been started, and a destination path that does not exist
\* (NewFfmpeg fails with ErrOutputFileExists otherwise).
Init ==
  /\ callerPc = "idle"
  /\ startResult = "none"
  /\ runErr = "none"
  /\ readerPc = "none"
  /\ curLine = EmptyRecord
  /\ fatalErr = "none"
  /\ procState = "notstarted"
  /\ exitErr = "none"
  /\ outputOpened = FALSE
  /\ fileExists = FALSE
  /\ cancelled \in BOOLEAN
  /\ cancelledWhileRunning = FALSE
  /\ pipe = <<>>
  /\ emitted = 0
  /\ readClosed = FALSE
  /\ closed = [c \in Chans |-> FALSE]
  /\ closeCount = [c \in Chans |-> 0]
  /\ removeCount = 0
  /\ listening = {}
  /\ progressRecv = <<>>
  /\ errorRecv = <<>>
  /\ doneRecv = <<>>
  /\ doneClosedSeen = FALSE
  /\ parseIn = "none"
  /\ parseOut = NotCalled
  /\ ctor = "none"

(***************************************************************************)
(* The task that calls Start.                                              *)
(***************************************************************************)

\* f.command.StderrPipe() succeeds.
StartStderrPipe ==
  /\ callerPc = "idle"
  /\ callerPc' = "go"
  /\ UNCHANGED <<auxVars, startResult, runErr, readerVars, procVars, fileExists, ctxVars,
                 pipe, readClosed, chanVars, removeCount, consumerVars>>

\* The StderrPipe error recorded but not returned: Start goes on to spawn
\* the reader and to run the command.
StartStderrPipeFail_GoesOn ==
  /\ callerPc = "idle"
  /\ callerPc' = "go"
  /\ startResult' = ErrStdErrPipe
  /\ UNCHANGED <<auxVars, runErr, readerVars, procVars, fileExists, ctxVars,
                 pipe, readClosed, chanVars, removeCount, consumerVars>>

\* f.command.StderrPipe() fails: Start returns ErrStdErrPipe.
StartStderrPipeFail ==
  /\ callerPc = "idle"
  /\ callerPc' = "returned"
  /\ startResult' = ErrStdErrPipe
  /\ UNCHANGED <<auxVars, runErr, readerVars, procVars, fileExists, ctxVars,
                 pipe, readClosed, chanVars, removeCount, consumerVars>>

\* go func() { ... }(): the reader goroutine starts.
StartGo ==
  /\ callerPc = "go"
  /\ callerPc' = "run"
  /\ readerPc' = "read"
  /\ UNCHANGED <<auxVars, startResult, runErr, curLine, fatalErr, procVars, fileExists,
                 ctxVars, pipe, readClosed, chanVars, removeCount, consumerVars>>

\* f.command.Run(), first half: the subprocess is launched.  exec refuses
\* to launch a command whose context is already done.
RunLaunch ==
  /\ callerPc = "run"
  /\ ~cancelled
  /\ callerPc' = "wait"
  /\ procState' = "running"
  /\ UNCHANGED <<auxVars, startResult, runErr, readerVars, exitErr, outputOpened, emitted,
                 fileExists, ctxVars, pipe, readClosed, chanVars, removeCount,
                 consumerVars>>

\* f.command.Run(), first half, failing: no subprocess exists, exec closes
\* both ends of the stderr pipe and Run returns the error.
RunLaunchFail ==
  /\ callerPc = "run"
  /\ callerPc' = "ret"
  /\ procState' = "failed"
  /\ runErr' = "err"
  /\ readClosed' = TRUE
  /\ UNCHANGED <<auxVars, startResult, readerVars, exitErr, outputOpened, emitted,
                 fileExists, ctxVars, pipe, chanVars, removeCount, consumerVars>>

\* Run replaced by a call that does not wait for the subprocess.
RunWait_NoWait ==
  /\ callerPc = "wait"
  /\ callerPc' = "ret"
  /\ runErr' = "nil"
  /\ UNCHANGED <<auxVars, startResult, readerVars, procVars, fileExists, ctxVars, pipe,
                 readClosed, chanVars, removeCount, consumerVars>>

\* f.command.Run(), second half: Wait blocks until the subprocess has
\* exited, closes the read end of the stderr pipe and returns the exit
\* outcome.
RunWait ==
  /\ callerPc = "wait"
  /\ procState = "exited"
  /\ callerPc' = "ret"
  /\ runErr' = exitErr
  /\ readClosed' = TRUE
  /\ UNCHANGED <<auxVars, startResult, readerVars, procVars, fileExists, ctxVars, pipe,
                 chanVars, removeCount, consumerVars>>

\* if err = f.command.Run(); err != nil { return err }; return nil
\* and the deferred stderr.Close().
StartReturn ==
  /\ callerPc = "ret"
  /\ callerPc' = "returned"
  /\ startResult' = IF runErr # "nil" THEN runErr ELSE "nil"
  /\ readClosed' = TRUE
  /\ UNCHANGED <<auxVars, runErr, readerVars, procVars, fileExists, ctxVars, pipe,
                 chanVars, removeCount, consumerVars>>

(***************************************************************************)
(* The subprocess and the cancellation context.                            *)
(***************************************************************************)

\* The subprocess writes one more carriage-return delimited line to stderr.
ProcEmit(id) ==
  /\ procState = "running"
  /\ emitted < MaxLines
  /\ emitted' = emitted + 1
  /\ pipe' = Append(pipe, [pos |-> emitted + 1, id |-> id])
  /\ UNCHANGED <<auxVars, callerVars, readerVars, procState, exitErr, outputOpened,
                 fileExists, ctxVars, readClosed, chanVars, removeCount,
                 consumerVars>>

\* The subprocess creates the destination file.
ProcOpenOutput ==
  /\ procState = "running"
  /\ ~outputOpened
  /\ outputOpened' = TRUE
  /\ fileExists' = TRUE
  /\ UNCHANGED <<auxVars, callerVars, readerVars, procState, exitErr, emitted, ctxVars,
                 pipe, readClosed, chanVars, removeCount, consumerVars>>

\* The subprocess finishes the transcode and exits with status 0.
ProcExitOk ==
  /\ procState = "running"
  /\ outputOpened
  /\ procState' = "exited"
  /\ exitErr' = "nil"
  /\ UNCHANGED <<auxVars, callerVars, readerVars, outputOpened, emitted, fileExists,
                 ctxVars, pipe, readClosed, chanVars, removeCount, consumerVars>>

\* The subprocess fails on its own and exits with a non-zero status.
ProcExitErr ==
  /\ procState = "running"
  /\ procState' = "exited"
  /\ exitErr' = "err"
  /\ UNCHANGED <<auxVars, callerVars, readerVars, outputOpened, emitted, fileExists,
                 ctxVars, pipe, readClosed, chanVars, removeCount, consumerVars>>

\* The owner of the cancellation context cancels it.
Cancel ==
  /\ ~cancelled
  /\ cancelled' = TRUE
  /\ cancelledWhileRunning' = (procState = "running")
  /\ UNCHANGED <<auxVars, callerVars, readerVars, procVars, fileExists, pipe, readClosed,
                 chanVars, removeCount, consumerVars>>

\* exec.CommandContext: once the context is done the running subprocess is
\* killed.
CtxKill ==
  /\ cancelled
  /\ procState = "running"
  /\ procState' = "exited"
  /\ exitErr' = "err"
  /\ UNCHANGED <<auxVars, callerVars, readerVars, outputOpened, emitted, fileExists,
                 ctxVars, pipe, readClosed, chanVars, removeCount, consumerVars>>

(***************************************************************************)
(* The reader goroutine started by Start.                                  *)
(***************************************************************************)

\* errors.Is(err, ErrNoProgressInformation)
IsNoProgress(err) ==
  err = ErrNoProgressInformation

\* A receiver is parked on channel c, so a select-with-default send on c
\* takes the send case; otherwise it takes the default case.
Ready(c) ==
  c \in listening

\* ReadString handing out the newest line of the stream instead of the
\* oldest.
ReaderReadString_Newest ==
  /\ readerPc = "read"
  /\ pipe # <<>>
  /\ curLine' = pipe[Len(pipe)]
  /\ pipe' = SubSeq(pipe, 1, Len(pipe) - 1)
  /\ readerPc' = "parse"
  /\ UNCHANGED <<auxVars, callerVars, fatalErr, procVars, fileExists, ctxVars, readClosed,
                 chanVars, removeCount, consumerVars>>

\* stdErrScanner.ReadString('\r') returns the next line.  Lines already
\* buffered can still be returned after the read end has been closed.
ReaderReadString ==
  /\ readerPc = "read"
  /\ pipe # <<>>
  /\ curLine' = Head(pipe)
  /\ pipe' = Tail(pipe)
  /\ readerPc' = "parse"
  /\ UNCHANGED <<auxVars, callerVars, fatalErr, procVars, fileExists, ctxVars, readClosed,
                 chanVars, removeCount, consumerVars>>

\* stdErrScanner.ReadString('\r') returns an error: the read end has been
\* closed, or the write end has (the subprocess is gone) and no line is
\* left.  No complete line is returned with it.  The reader goes on to
\* f.cleanUp() and returns, so lines still in the stream are never read.
ReaderReadError ==
  /\ readerPc = "read"
  /\ \/ readClosed
     \/ pipe = <<>> /\ procState \in {"exited", "failed"}
  /\ curLine' = EmptyRecord
  /\ pipe' = <<>>
  /\ readerPc' = "cleanUp"
  /\ UNCHANGED <<auxVars, callerVars, fatalErr, procVars, fileExists, ctxVars,
                 readClosed, chanVars, removeCount, consumerVars>>

\* newProgress returned ErrNoProgressInformation: continue with the next
\* iteration.
ReaderSkip ==
  /\ readerPc = "parse"
  /\ Outcome[curLine.id].err # "nil"
  /\ IsNoProgress(Outcome[curLine.id].err)
  /\ readerPc' = "read"
  /\ UNCHANGED <<auxVars, callerVars, curLine, fatalErr, procVars, fileExists, ctxVars, pipe,
                 readClosed, chanVars, removeCount, consumerVars>>

\* The error branch of the blocking orchestrator: the error is sent and the
\* loop continues with the next read.
ReaderSendError_Continue ==
  /\ readerPc = "parse"
  /\ Outcome[curLine.id].err # "nil"
  /\ ~IsNoProgress(Outcome[curLine.id].err)
  /\ fatalErr' = Outcome[curLine.id].err
  /\ IF Ready("Error")
       THEN /\ errorRecv' = Append(errorRecv, Outcome[curLine.id].err)
            /\ listening' = listening \ {"Error"}
       ELSE UNCHANGED <<errorRecv, listening>>
  /\ readerPc' = "read"
  /\ UNCHANGED <<auxVars, callerVars, curLine, procVars, fileExists, ctxVars, pipe, readClosed,
                 chanVars, removeCount, progressRecv, doneRecv, doneClosedSeen>>

\* newProgress returned any other error: select { case f.Error <- err:
\* default: }.
ReaderSendError ==
  /\ readerPc = "parse"
  /\ Outcome[curLine.id].err # "nil"
  /\ ~IsNoProgress(Outcome[curLine.id].err)
  /\ fatalErr' = Outcome[curLine.id].err
  /\ IF Ready("Error")
       THEN /\ errorRecv' = Append(errorRecv, Outcome[curLine.id].err)
            /\ listening' = listening \ {"Error"}
       ELSE UNCHANGED <<errorRecv, listening>>
  /\ readerPc' = "cancelCmd"
  /\ UNCHANGED <<auxVars, callerVars, curLine, procVars, fileExists, ctxVars, pipe, readClosed,
                 chanVars, removeCount, progressRecv, doneRecv, doneClosedSeen>>

\* f.command.Cancel(): kills the subprocess if it is still running.  The
\* reader goes on to f.cleanUp() and returns, so lines still in the stream
\* are never read.
ReaderCancelCommand ==
  /\ readerPc = "cancelCmd"
  /\ IF procState = "running"
       THEN procState' = "exited" /\ exitErr' = "err"
       ELSE UNCHANGED <<procState, exitErr>>
  /\ pipe' = <<>>
  /\ readerPc' = "cleanUp"
  /\ UNCHANGED <<auxVars, callerVars, curLine, fatalErr, outputOpened, emitted, fileExists,
                 ctxVars, readClosed, chanVars, removeCount, consumerVars>>

\* The progress send without the default case: f.Progress <- *progress.
ReaderSendProgress_Blocking ==
  /\ readerPc = "parse"
  /\ Outcome[curLine.id].err = "nil"
  /\ Ready("Progress")
  /\ progressRecv' = Append(progressRecv, curLine)
  /\ listening' = listening \ {"Progress"}
  /\ readerPc' = "read"
  /\ UNCHANGED <<auxVars, callerVars, curLine, fatalErr, procVars, fileExists, ctxVars, pipe,
                 readClosed, chanVars, removeCount, errorRecv, doneRecv, doneClosedSeen>>

\* newProgress returned a record: select { case f.Progress <- *progress:
\* default: }, then the next iteration.
ReaderSendProgress ==
  /\ readerPc = "parse"
  /\ Outcome[curLine.id].err = "nil"
  /\ IF Ready("Progress")
       THEN /\ progressRecv' = Append(progressRecv, curLine)
            /\ listening' = listening \ {"Progress"}
       ELSE UNCHANGED <<progressRecv, listening>>
  /\ readerPc' = "read"
  /\ UNCHANGED <<auxVars, callerVars, curLine, fatalErr, procVars, fileExists, ctxVars, pipe,
                 readClosed, chanVars, removeCount, errorRecv, doneRecv, doneClosedSeen>>

(***************************************************************************)
(* cleanUp, run by the reader goroutine.                                   *)
(***************************************************************************)

\* cleanUp without the context test: the default branch is always taken.
CleanUpSelect_IgnoreContext ==
  /\ readerPc = "cleanUp"
  /\ readerPc' = "sendTrue"
  /\ UNCHANGED <<auxVars, callerVars, curLine, fatalErr, procVars, fileExists, ctxVars, pipe,
                 readClosed, chanVars, removeCount, consumerVars>>

\* select { case <-f.context.Done(): ... default: ... }
CleanUpSelect ==
  /\ readerPc = "cleanUp"
  /\ readerPc' = IF cancelled THEN "remove" ELSE "sendTrue"
  /\ UNCHANGED <<auxVars, callerVars, curLine, fatalErr, procVars, fileExists, ctxVars, pipe,
                 readClosed, chanVars, removeCount, consumerVars>>

\* The cancelled branch without the os.Remove call.
CleanUpRemove_Skip ==
  /\ readerPc = "remove"
  /\ readerPc' = "sendFalse"
  /\ UNCHANGED <<auxVars, callerVars, curLine, fatalErr, procVars, fileExists, ctxVars, pipe,
                 readClosed, chanVars, removeCount, consumerVars>>

\* os.Remove(f.outputFile)
CleanUpRemove ==
  /\ readerPc = "remove"
  /\ fileExists' = FALSE
  /\ removeCount' = removeCount + 1
  /\ readerPc' = "sendFalse"
  /\ UNCHANGED <<auxVars, callerVars, curLine, fatalErr, procVars, ctxVars, pipe, readClosed,
                 chanVars, consumerVars>>

\* select { case f.Done <- false: default: }
CleanUpSendFalse ==
  /\ readerPc = "sendFalse"
  /\ IF Ready("Done")
       THEN /\ doneRecv' = Append(doneRecv, FALSE)
            /\ listening' = listening \ {"Done"}
       ELSE UNCHANGED <<doneRecv, listening>>
  /\ readerPc' = "closeProgress"
  /\ UNCHANGED <<auxVars, callerVars, curLine, fatalErr, procVars, fileExists, ctxVars, pipe,
                 readClosed, chanVars, removeCount, progressRecv, errorRecv,
                 doneClosedSeen>>

\* The completion send without the default case: f.Done <- true.
CleanUpSendTrue_Blocking ==
  /\ readerPc = "sendTrue"
  /\ Ready("Done")
  /\ doneRecv' = Append(doneRecv, TRUE)
  /\ listening' = listening \ {"Done"}
  /\ readerPc' = "sendEmpty"
  /\ UNCHANGED <<auxVars, callerVars, curLine, fatalErr, procVars, fileExists, ctxVars, pipe,
                 readClosed, chanVars, removeCount, progressRecv, errorRecv,
                 doneClosedSeen>>

\* cleanUp closing Progress right after the delivered Done <- true, before
\* the empty record is sent (the order of the blocking orchestrator, which
\* closes Progress first).
CleanUpSendTrue_ClosesProgress ==
  /\ readerPc = "sendTrue"
  /\ IF Ready("Done")
       THEN /\ doneRecv' = Append(doneRecv, TRUE)
            /\ listening' = listening \ {"Done"}
            /\ closed' = [closed EXCEPT !["Progress"] = TRUE]
            /\ readerPc' = "sendEmpty"
       ELSE /\ UNCHANGED <<doneRecv, listening, closed>>
            /\ readerPc' = "closeProgress"
  /\ UNCHANGED <<auxVars, callerVars, curLine, fatalErr, procVars, fileExists,
                 ctxVars, pipe, readClosed, closeCount, removeCount,
                 progressRecv, errorRecv, doneClosedSeen>>

\* select { case f.Done <- true: <send empty progress> default: }
CleanUpSendTrue ==
  /\ readerPc = "sendTrue"
  /\ IF Ready("Done")
       THEN /\ doneRecv' = Append(doneRecv, TRUE)
            /\ listening' = listening \ {"Done"}
            /\ readerPc' = "sendEmpty"
       ELSE /\ UNCHANGED <<doneRecv, listening>>
            /\ readerPc' = "closeProgress"
  /\ UNCHANGED <<auxVars, callerVars, curLine, fatalErr, procVars, fileExists, ctxVars, pipe,
                 readClosed, chanVars, removeCount, progressRecv, errorRecv,
                 doneClosedSeen>>

\* select { case f.Progress <- Progress{}: default: }
CleanUpSendEmpty ==
  /\ readerPc = "sendEmpty"
  /\ IF Ready("Progress")
       THEN /\ progressRecv' = Append(progressRecv, EmptyRecord)
            /\ listening' = listening \ {"Progress"}
       ELSE UNCHANGED <<progressRecv, listening>>
  /\ readerPc' = "closeProgress"
  /\ UNCHANGED <<auxVars, callerVars, curLine, fatalErr, procVars, fileExists, ctxVars, pipe,
                 readClosed, chanVars, removeCount, errorRecv, doneRecv, doneClosedSeen>>

\* close(c) by the reader at position pc, which then moves to position next.
CloseChan(c, pc, next) ==
  /\ readerPc = pc
  /\ closed' = [closed EXCEPT ![c] = TRUE]
  /\ closeCount' = [closeCount EXCEPT ![c] = @ + 1]
  /\ readerPc' = next
  /\ UNCHANGED <<auxVars, callerVars, curLine, fatalErr, procVars, fileExists, ctxVars, pipe,
                 readClosed, removeCount, consumerVars>>

\* close(f.Progress)
CleanUpCloseProgress ==
  CloseChan("Progress", "closeProgress", "closeError")

\* close(f.Error)
CleanUpCloseError ==
  CloseChan("Error", "closeError", "closeDone")

\* close(f.Done) with the return after f.cleanUp() missing: the loop goes
\* on to the next read.
CleanUpCloseDone_NoReturn ==
  CloseChan("Done", "closeDone", "read")

\* close(f.Done); cleanUp returns and the goroutine returns after it.
CleanUpCloseDone ==
  CloseChan("Done", "closeDone", "done")

(***************************************************************************)
(* The consumer of the three channels.                                     *)
(***************************************************************************)

\* The consumer starts or stops waiting on channels: it blocks in a
\* receive or a select over the channels of S, or leaves the one it is in
\* (S empty).
ConsumerListen(S) ==
  /\ S # listening
  /\ listening = {} \/ S = {}
  /\ listening' = S
  /\ UNCHANGED <<auxVars, callerVars, readerVars, procVars, fileExists, ctxVars, pipe,
                 readClosed, chanVars, removeCount, progressRecv, errorRecv,
                 doneRecv, doneClosedSeen>>

\* A receive on a closed channel returns the zero value at once; for Done
\* that value is false.
ConsumerRecvClosed(c) ==
  /\ c \in listening
  /\ closed[c]
  /\ doneClosedSeen' = (doneClosedSeen \/ c = "Done")
  /\ listening' = listening \ {c}
  /\ UNCHANGED <<auxVars, callerVars, readerVars, procVars, fileExists, ctxVars, pipe,
                 readClosed, chanVars, removeCount, progressRecv, errorRecv,
                 doneRecv>>

(***************************************************************************)
(* The specification.                                                      *)
(***************************************************************************)

Caller ==
  \/ StartStderrPipe
  \/ StartStderrPipeFail
  \/ StartGo
  \/ RunLaunch
  \/ RunLaunchFail
  \/ RunWait
  \/ StartReturn

Reader ==
  \/ ReaderReadString
  \/ ReaderReadError
  \/ ReaderSkip
  \/ ReaderSendError
  \/ ReaderCancelCommand
  \/ ReaderSendProgress
  \/ CleanUpSelect
  \/ CleanUpRemove
  \/ CleanUpSendFalse
  \/ CleanUpSendTrue
  \/ CleanUpSendEmpty
  \/ CleanUpCloseProgress
  \/ CleanUpCloseError
  \/ CleanUpCloseDone

Process ==
  \/ \E id \in EmitLines : ProcEmit(id)
  \/ ProcOpenOutput
  \/ ProcExitOk
  \/ ProcExitErr
  \/ Cancel
  \/ CtxKill

Consumer ==
  \/ \E S \in SUBSET Chans : ConsumerListen(S)
  \/ \E c \in Chans : ConsumerRecvClosed(c)

Next ==
  \/ Caller
  \/ Reader
  \/ Process
  \/ Consumer

Spec ==
  Init /\ [][Next]_vars

\* The Go scheduler runs every runnable goroutine: the reader and the task
\* in Start keep taking their steps, and exec's watcher kills the subprocess
\* once the context is done.  Nothing obliges the subprocess to write or to
\* exit, the owner of the context to cancel, or a consumer to listen.
LiveSpec ==
  /\ Spec
  /\ WF_vars(Reader)
  /\ WF_vars(Caller)
  /\ WF_vars(CtxKill)

TypeOK ==
  /\ callerPc \in {"idle", "go", "run", "wait", "ret", "returned"}
  /\ readerPc \in {"none", "read", "parse", "cancelCmd", "cleanUp", "remove",
                   "sendFalse", "sendTrue", "sendEmpty", "closeProgress",
                   "closeError", "closeDone", "done"}
  /\ procState \in {"notstarted", "running", "exited", "failed"}
  /\ listening \subseteq Chans
  /\ emitted \in 0..MaxLines

(***************************************************************************)
(* Part 3: newProgress called on its own, on lines put together from a     *)
(* value for every field and a layout.                                     *)
(***************************************************************************)

\* Number of places in which a line may differ from the well-formed line
\* with all nine fields.
MaxDeviations == 2

\* The values a line may carry for each field; the first of each is the
\* value of the well-formed line.
\* 100, 1.5
FrameVals ==
  <<<<"1","0","0">>, <<"1",".","5">>>>

\* 25, 2x5
FPSVals ==
  <<<<"2","5">>, <<"2","x","5">>>>

\* 28.0, 1e
QVals ==
  <<<<"2","8",".","0">>, <<"1","e">>>>

\* 2048KiB, N/A
SizeVals ==
  <<<<"2","0","4","8","K","i","B">>, <<"N","/","A">>>>

\* 00:00:10.00, 01:02:03.50, 00:00:00.00, N/A, 10.00
TimeVals ==
  <<<<"0","0",":","0","0",":","1","0",".","0","0">>,
    <<"0","1",":","0","2",":","0","3",".","5","0">>,
    <<"0","0",":","0","0",":","0","0",".","0","0">>,
    <<"N","/","A">>,
    <<"1","0",".","0","0">>>>

\* 512.0kbit/s, N/A, kbit/s
BitrateVals ==
  <<<<"5","1","2",".","0","k","b","i","t","/","s">>, <<"N","/","A">>,
    <<"k","b","i","t","/","s">>>>

\* 0, x
DupVals ==
  <<<<"0">>, <<"x">>>>

\* 0, 1.0
DropVals ==
  <<<<"0">>, <<"1",".","0">>>>

\* 1.02x, N/A, x
SpeedVals ==
  <<<<"1",".","0","2","x">>, <<"N","/","A">>, <<"x">>>>

\* "full": all nine fields; "nodup": without dup and drop (lower
\* verbosity); "extra": with the elapsed field newer ffmpeg versions add;
\* "banner": the line does not start with the marker.
Layouts ==
  {"full", "nodup", "extra", "banner"}

\* The two revisions of newProgress: fixed positions (progress.go) and
\* name scanning.
Revisions ==
  {"fixed", "scan"}

\* Total durations the probe may have reported: 100 seconds, and zero.
Durations ==
  {RunDuration, 0}

\* The number of places in which the line of input differs from the
\* well-formed line.
Deviations(input) ==
  (IF input.frame # 1 THEN 1 ELSE 0) + (IF input.fps # 1 THEN 1 ELSE 0)
  + (IF input.q # 1 THEN 1 ELSE 0) + (IF input.size # 1 THEN 1 ELSE 0)
  + (IF input.time # 1 THEN 1 ELSE 0) + (IF input.bitrate # 1 THEN 1 ELSE 0)
  + (IF input.dup # 1 THEN 1 ELSE 0) + (IF input.drop # 1 THEN 1 ELSE 0)
  + (IF input.speed # 1 THEN 1 ELSE 0) + (IF input.layout # "full" THEN 1 ELSE 0)

\* The calls of newProgress the model makes.
ParseInputs ==
  {input \in [rev : Revisions,
              frame : DOMAIN FrameVals, fps : DOMAIN FPSVals, q : DOMAIN QVals,
              size : DOMAIN SizeVals, time : DOMAIN TimeVals,
              bitrate : DOMAIN BitrateVals, dup : DOMAIN DupVals,
              drop : DOMAIN DropVals, speed : DOMAIN SpeedVals,
              layout : Layouts, duration : Durations,
              timeTaken : {RunTimeTaken}] :
     Deviations(input) <= MaxDeviations}

\* The line of an input, as ffmpeg prints it, ending with a carriage return.
LineOf(input) ==
  (IF input.layout = "banner" THEN <<" ">> ELSE <<>>)
  \o <<"f","r","a","m","e","="," "," ">> \o FrameVals[input.frame]
  \o <<" ","f","p","s","="," ">> \o FPSVals[input.fps]
  \o <<" ","q","=">> \o QVals[input.q]
  \o <<" ","s","i","z","e","="," "," "," "," ">> \o SizeVals[input.size]
  \o <<" ","t","i","m","e","=">> \o TimeVals[input.time]
  \o <<" ","b","i","t","r","a","t","e","="," ">> \o BitrateVals[input.bitrate]
  \o (IF input.layout = "nodup"
        THEN <<>>
        ELSE <<" ","d","u","p","=">> \o DupVals[input.dup]
             \o <<" ","d","r","o","p","=">> \o DropVals[input.drop])
  \o <<" ","s","p","e","e","d","=">> \o SpeedVals[input.speed]
  \o (IF input.layout = "extra"
        THEN <<" ","e","l","a","p","s","e","d","=","0",":","0","0",":","0","5",".","0","0">>
        ELSE <<>>)
  \o <<"\r">>

\* Nothing of the orchestrator has run.
OrchestratorIdle ==
  /\ callerPc = "idle"
  /\ startResult = "none"
  /\ runErr = "none"
  /\ readerPc = "none"
  /\ curLine = EmptyRecord
  /\ fatalErr = "none"
  /\ procState = "notstarted"
  /\ exitErr = "none"
  /\ outputOpened = FALSE
  /\ fileExists = FALSE
  /\ cancelled = FALSE
  /\ cancelledWhileRunning = FALSE
  /\ pipe = <<>>
  /\ emitted = 0
  /\ readClosed = FALSE
  /\ closed = [c \in Chans |-> FALSE]
  /\ closeCount = [c \in Chans |-> 0]
  /\ removeCount = 0
  /\ listening = {}
  /\ progressRecv = <<>>
  /\ errorRecv = <<>>
  /\ doneRecv = <<>>
  /\ doneClosedSeen = FALSE

orchestratorVars ==
  <<callerVars, readerVars, procVars, fileExists, ctxVars, pipe, readClosed,
    chanVars, removeCount, consumerVars>>

ParseInit ==
  /\ OrchestratorIdle
  /\ parseIn \in ParseInputs
  /\ parseOut = NotCalled
  /\ ctor = "none"

\* newProgress of progress.go is called with the line of the input.
CallNewProgress ==
  /\ parseOut = NotCalled
  /\ parseIn.rev = "fixed"
  /\ parseOut' = newProgress(LineOf(parseIn), parseIn.duration, parseIn.timeTaken)
  /\ UNCHANGED <<orchestratorVars, parseIn, ctor>>

\* newProgress of the name-scanning revision is called with the line of the
\* input.
CallNewProgressScan ==
  /\ parseOut = NotCalled
  /\ parseIn.rev = "scan"
  /\ parseOut' = newProgressScan(LineOf(parseIn), parseIn.duration,
                                 parseIn.timeTaken)
  /\ UNCHANGED <<orchestratorVars, parseIn, ctor>>

ParseNext ==
  \/ CallNewProgress
  \/ CallNewProgressScan

ParseSpec ==
  ParseInit /\ [][ParseNext]_vars

(***************************************************************************)
(* Part 4: NewFfmpeg, the construction of an orchestrator, step by step.   *)
(* What the file system, the pipe, the probe process and the probe output  *)
(* do is drawn in the initial state.                                       *)
(***************************************************************************)

\* The remaining sentinels NewFfmpeg returns.
ErrOutputFileExists == "ErrOutputFileExists"
ErrFfProbeStdOutPipe == "ErrFfProbeStdOutPipe"
ErrFfProbeCommand == "ErrFfProbeCommand"
ErrFfProbeUnmarshal == "ErrFfProbeUnmarshal"
ErrFfProbeDuration == "ErrFfProbeDuration"

\* Outcomes of os.Stat: the path exists, it does not, or Stat fails for
\* another reason (such as a permission).
StatOutcomes ==
  {"exists", "notexist", "othererror"}

\* Values of format.duration in the probe output: 100.000000, N/A, the
\* empty string of a missing key, 0.000000.
DurationToks ==
  <<<<"1","0","0",".","0","0","0","0","0","0">>, <<"N","/","A">>, <<>>,
    <<"0",".","0","0","0","0","0","0">>>>

\* What the surroundings of one NewFfmpeg call do.  An occupied destination
\* path lies in a destination directory that exists.
CtorEnvs ==
  {e \in [inputStat : StatOutcomes, outputStat : StatOutcomes,
          dirExisted : BOOLEAN, mkdirOk : BOOLEAN, pipeOk : BOOLEAN,
          startOk : BOOLEAN, jsonOk : BOOLEAN,
          durationTok : DOMAIN DurationToks] :
     e.outputStat = "exists" => e.dirExisted}

\* The state of a NewFfmpeg call: its position, the destination directory,
\* the probe process and its stdout pipe, the duration read, and what the
\* call returned ("none" until it returns; "nil" with an orchestrator).
CtorStart(e) ==
  [pc |-> "statInput", env |-> e, dirExists |-> e.dirExisted,
   probe |-> "notstarted", pipeOpen |-> FALSE, duration |-> 0,
   err |-> "none", orchestrator |-> FALSE]

\* return nil, err, with the deferred ffprobeOutput.Close() once the pipe
\* has been opened.
CtorFail(c, err) ==
  [c EXCEPT !.pc = "returned", !.err = err, !.pipeOpen = FALSE]

NewInit ==
  /\ OrchestratorIdle
  /\ parseIn = "none"
  /\ parseOut = NotCalled
  /\ ctor \in {CtorStart(e) : e \in CtorEnvs}

\* os.Stat(inputFile); if os.IsNotExist(err) { return nil, err }
NewStatInput ==
  /\ ctor.pc = "statInput"
  /\ ctor' = IF ctor.env.inputStat = "notexist"
               THEN CtorFail(ctor, "ErrNotExist")
               ELSE [ctor EXCEPT !.pc = "statOutput"]
  /\ UNCHANGED <<orchestratorVars, parseIn, parseOut>>

\* os.Stat(outputFile); if !os.IsNotExist(err) { return nil,
\* ErrOutputFileExists }
NewStatOutput ==
  /\ ctor.pc = "statOutput"
  /\ ctor' = IF ctor.env.outputStat # "notexist"
               THEN CtorFail(ctor, ErrOutputFileExists)
               ELSE [ctor EXCEPT !.pc = "mkdir"]
  /\ UNCHANGED <<orchestratorVars, parseIn, parseOut>>

\* os.MkdirAll(outputDirectory, os.ModePerm): nothing to do when the
\* directory exists, otherwise it is created or the error is returned.
NewMkdirAll ==
  /\ ctor.pc = "mkdir"
  /\ ctor' = IF ctor.dirExists
               THEN [ctor EXCEPT !.pc = "command"]
               ELSE IF ctor.env.mkdirOk
                 THEN [ctor EXCEPT !.pc = "command", !.dirExists = TRUE]
                 ELSE CtorFail(ctor, "ErrMkdir")
  /\ UNCHANGED <<orchestratorVars, parseIn, parseOut>>

\* exec.CommandContext, the three make(chan ...) and exec.Command for the
\* probe: values are built, nothing is started.
NewCommand ==
  /\ ctor.pc = "command"
  /\ ctor' = [ctor EXCEPT !.pc = "stdoutPipe"]
  /\ UNCHANGED <<orchestratorVars, parseIn, parseOut>>

\* ffprobe.StdoutPipe()
NewStdoutPipe ==
  /\ ctor.pc = "stdoutPipe"
  /\ ctor' = IF ctor.env.pipeOk
               THEN [ctor EXCEPT !.pc = "probeStart", !.pipeOpen = TRUE]
               ELSE CtorFail(ctor, ErrFfProbeStdOutPipe)
  /\ UNCHANGED <<orchestratorVars, parseIn, parseOut>>

\* ffprobe.Start()
NewProbeStart ==
  /\ ctor.pc = "probeStart"
  /\ ctor' = IF ctor.env.startOk
               THEN [ctor EXCEPT !.pc = "scan", !.probe = "running"]
               ELSE CtorFail(ctor, ErrFfProbeCommand)
  /\ UNCHANGED <<orchestratorVars, parseIn, parseOut>>

\* The Scan loop reads the probe's output to its end: the probe has closed
\* its stdout.  ffprobe.Wait() is never called.
NewProbeScan ==
  /\ ctor.pc = "scan"
  /\ ctor' = [ctor EXCEPT !.pc = "unmarshal", !.probe = "exited"]
  /\ UNCHANGED <<orchestratorVars, parseIn, parseOut>>

\* json.Unmarshal([]byte(outputString), &output)
NewUnmarshal ==
  /\ ctor.pc = "unmarshal"
  /\ ctor' = IF ctor.env.jsonOk
               THEN [ctor EXCEPT !.pc = "duration"]
               ELSE CtorFail(ctor, ErrFfProbeUnmarshal)
  /\ UNCHANGED <<orchestratorVars, parseIn, parseOut>>

\* strconv.ParseFloat(output.Format.Duration, 64), then
\* time.Duration(durationSeconds * float64(time.Second)) and the return of
\* the Ffmpeg struct.
NewParseDuration ==
  /\ ctor.pc = "duration"
  /\ LET durationSeconds == ParseFloat(DurationToks[ctor.env.durationTok])
     IN ctor' =
          IF ~durationSeconds.ok
            THEN CtorFail(ctor, ErrFfProbeDuration)
            ELSE [ctor EXCEPT
                    !.pc = "returned",
                    !.err = "nil",
                    !.orchestrator = TRUE,
                    !.pipeOpen = FALSE,
                    !.duration =
                      DurationOfFloat(
                        [kind |-> durationSeconds.kind,
                         val |-> durationSeconds.val * Second]).val]
  /\ UNCHANGED <<orchestratorVars, parseIn, parseOut>>

NewNext ==
  \/ NewStatInput
  \/ NewStatOutput
  \/ NewMkdirAll
  \/ NewCommand
  \/ NewStdoutPipe
  \/ NewProbeStart
  \/ NewProbeScan
  \/ NewUnmarshal
  \/ NewParseDuration

NewSpec ==
  NewInit /\ [][NewNext]_vars

(***************************************************************************)
(* Part 5: the blocking-delivery orchestrator (second Ffmpeg.Start and     *)
(* Ffmpeg.cleanUp of ffmpeg.go).  The task that calls Start, the           *)
(* subprocess, the context and the consumer are those of part 2; the       *)
(* reader goroutine and cleanUp differ.                                    *)
(***************************************************************************)

\* stdErrScanner.ReadString('\r') returns the next line.
BlockReadString ==
  /\ readerPc = "read"
  /\ pipe # <<>>
  /\ curLine' = Head(pipe)
  /\ pipe' = Tail(pipe)
  /\ readerPc' = "parse"
  /\ UNCHANGED <<auxVars, callerVars, fatalErr, procVars, fileExists, ctxVars,
                 readClosed, chanVars, removeCount, consumerVars>>

\* stdErrScanner.ReadString('\r') returns an error: the reader calls
\* f.cleanUp() and returns, so lines still in the stream are never read.
BlockReadError ==
  /\ readerPc = "read"
  /\ \/ readClosed
     \/ pipe = <<>> /\ procState \in {"exited", "failed"}
  /\ curLine' = EmptyRecord
  /\ pipe' = <<>>
  /\ readerPc' = "bCloseProgress"
  /\ UNCHANGED <<auxVars, callerVars, fatalErr, procVars, fileExists, ctxVars,
                 readClosed, chanVars, removeCount, consumerVars>>

\* newProgress returned ErrNoProgressInformation: continue.
BlockSkip ==
  /\ readerPc = "parse"
  /\ Outcome[curLine.id].err # "nil"
  /\ IsNoProgress(Outcome[curLine.id].err)
  /\ readerPc' = "read"
  /\ UNCHANGED <<auxVars, callerVars, curLine, fatalErr, procVars, fileExists,
                 ctxVars, pipe, readClosed, chanVars, removeCount, consumerVars>>

\* newProgress returned any other error: f.Error <- err, which waits for a
\* receiver, then continue.
BlockSendError ==
  /\ readerPc = "parse"
  /\ Outcome[curLine.id].err # "nil"
  /\ ~IsNoProgress(Outcome[curLine.id].err)
  /\ Ready("Error")
  /\ errorRecv' = Append(errorRecv, Outcome[curLine.id].err)
  /\ listening' = listening \ {"Error"}
  /\ readerPc' = "read"
  /\ UNCHANGED <<auxVars, callerVars, curLine, fatalErr, procVars, fileExists,
                 ctxVars, pipe, readClosed, chanVars, removeCount, progressRecv,
                 doneRecv, doneClosedSeen>>

\* newProgress returned a record: f.Progress <- *progress, which waits for
\* a receiver.
BlockSendProgress ==
  /\ readerPc = "parse"
  /\ Outcome[curLine.id].err = "nil"
  /\ Ready("Progress")
  /\ progressRecv' = Append(progressRecv, curLine)
  /\ listening' = listening \ {"Progress"}
  /\ readerPc' = "read"
  /\ UNCHANGED <<auxVars, callerVars, curLine, fatalErr, procVars, fileExists,
                 ctxVars, pipe, readClosed, chanVars, removeCount, errorRecv,
                 doneRecv, doneClosedSeen>>

\* close(f.Progress), the first statement of cleanUp.
BlockCloseProgress ==
  CloseChan("Progress", "bCloseProgress", "bSelect")

\* select { case <-f.context.Done(): ... default: }
BlockSelect ==
  /\ readerPc = "bSelect"
  /\ readerPc' = IF cancelled THEN "bRemove" ELSE "bCloseError"
  /\ UNCHANGED <<auxVars, callerVars, curLine, fatalErr, procVars, fileExists,
                 ctxVars, pipe, readClosed, chanVars, removeCount, consumerVars>>

\* os.Remove(f.outputFile)
BlockRemove ==
  /\ readerPc = "bRemove"
  /\ fileExists' = FALSE
  /\ removeCount' = removeCount + 1
  /\ readerPc' = "bCloseError"
  /\ UNCHANGED <<auxVars, callerVars, curLine, fatalErr, procVars, ctxVars, pipe,
                 readClosed, chanVars, consumerVars>>

\* close(f.Error)
BlockCloseError ==
  CloseChan("Error", "bCloseError", "bSendDone")

\* The completion send as a select with a default case: it is dropped when
\* no receiver waits.
BlockSendDone_Drop ==
  /\ readerPc = "bSendDone"
  /\ IF Ready("Done")
       THEN /\ doneRecv' = Append(doneRecv, FALSE)
            /\ listening' = listening \ {"Done"}
       ELSE UNCHANGED <<doneRecv, listening>>
  /\ readerPc' = "bCloseDone"
  /\ UNCHANGED <<auxVars, callerVars, curLine, fatalErr, procVars, fileExists,
                 ctxVars, pipe, readClosed, chanVars, removeCount, progressRecv,
                 errorRecv, doneClosedSeen>>

\* f.Done <- false, which waits for a receiver.
BlockSendDone ==
  /\ readerPc = "bSendDone"
  /\ Ready("Done")
  /\ doneRecv' = Append(doneRecv, FALSE)
  /\ listening' = listening \ {"Done"}
  /\ readerPc' = "bCloseDone"
  /\ UNCHANGED <<auxVars, callerVars, curLine, fatalErr, procVars, fileExists,
                 ctxVars, pipe, readClosed, chanVars, removeCount, progressRecv,
                 errorRecv, doneClosedSeen>>

\* close(f.Done); cleanUp returns and the goroutine returns after it.
BlockCloseDone ==
  CloseChan("Done", "bCloseDone", "done")

BlockReader ==
  \/ BlockReadString
  \/ BlockReadError
  \/ BlockSkip
  \/ BlockSendError
  \/ BlockSendProgress
  \/ BlockCloseProgress
  \/ BlockSelect
  \/ BlockRemove
  \/ BlockCloseError
  \/ BlockSendDone
  \/ BlockCloseDone

BlockNext ==
  \/ Caller
  \/ BlockReader
  \/ Process
  \/ Consumer

BlockSpec ==
  Init /\ [][BlockNext]_vars

\* The fairness of LiveSpec, for the reader of this orchestrator.
BlockLiveSpec ==
  /\ BlockSpec
  /\ WF_vars(BlockReader)
  /\ WF_vars(Caller)
  /\ WF_vars(CtxKill)

(***************************************************************************)
(* Properties.                                                             *)
(***************************************************************************)

\* Positions of the reader inside cleanUp.
CleanUpPcs ==
  {"cleanUp", "remove", "sendFalse", "sendTrue", "sendEmpty", "closeProgress",
   "closeError", "closeDone"}

\* Every channel has been closed.
AllClosed ==
  \A c \in Chans : closed[c]

\* The outcome of newProgress for the line the reader holds is a failure
\* other than "not a progress line".
HoldsFatalLine ==
  /\ curLine.id \in 1..Len(LineTable)
  /\ Outcome[curLine.id].err \notin {"nil", ErrNoProgressInformation}

\* C1: in every interleaving each of the Progress, Error and Done channels
\* is closed at most once and the destination file is removed at most once.
C1_CleanUpAtMostOnce ==
  /\ \A c \in Chans : closeCount[c] <= 1
  /\ removeCount <= 1

\* C1 witness: cleanUp has run to its end on a cancelled run, having closed
\* the three channels and removed the file.
C1_Witness ==
  /\ readerPc = "done"
  /\ \A c \in Chans : closeCount[c] = 1
  /\ removeCount = 1

\* C2: if the token is triggered after the subprocess was launched and
\* before it exited, then once cleanUp has finished the destination file
\* does not exist.
C2_CancelledLeavesNoFile ==
  (cancelledWhileRunning /\ readerPc = "done") => ~fileExists

\* C2 witness: the token was triggered while the subprocess ran, the
\* subprocess had created the file, and cleanUp has finished.
C2_Witness ==
  /\ cancelledWhileRunning
  /\ outputOpened
  /\ readerPc = "done"
  /\ ~fileExists

\* C3 as claimed: when the subprocess exited with success and the token has
\* not been triggered, the destination file exists and whatever the
\* consumer has observed on Done is true: a value it was sent is true, and
\* it has not been handed the zero value of the closed channel instead.
C3_DoneReportsSuccess ==
  (exitErr = "nil" /\ ~cancelled) =>
    /\ fileExists
    /\ \A i \in 1..Len(doneRecv) : doneRecv[i] = TRUE
    /\ doneClosedSeen => doneRecv # <<>>

\* C4: the reader never blocks on delivery.  Holding a parsed record or a
\* fatal error, its send step can always be taken; with no receiver parked
\* on the channel the step drops the value and moves the reader on.
C4_ReaderNeverBlocks ==
  /\ (readerPc = "parse" /\ Outcome[curLine.id].err = "nil") =>
       /\ ENABLED ReaderSendProgress
       /\ ~Ready("Progress") =>
            ENABLED (ReaderSendProgress /\ readerPc' = "read"
                       /\ progressRecv' = progressRecv)
  /\ (readerPc = "parse" /\ HoldsFatalLine) =>
       /\ ENABLED ReaderSendError
       /\ ~Ready("Error") =>
            ENABLED (ReaderSendError /\ readerPc' = "cancelCmd"
                       /\ errorRecv' = errorRecv)

\* C4 witness: a progress line was parsed while nobody listened, its record
\* was dropped and the reader is back at its read.
C4_Witness ==
  /\ readerPc = "read"
  /\ curLine.pos >= 1
  /\ Outcome[curLine.id].err = "nil"
  /\ \A i \in 1..Len(progressRecv) : progressRecv[i] # curLine

\* C5: once the subprocess has exited (or could not be launched, which ends
\* the stream), the three channels are eventually closed, whether or not a
\* consumer ever receives.
C5_ChannelsEventuallyClosed ==
  (procState \in {"exited", "failed"}) ~> AllClosed

\* C5 witness: the subprocess has exited and the channels are closed while
\* the consumer has never listened to or received from any channel.
C5_Witness ==
  /\ procState = "exited"
  /\ AllClosed
  /\ listening = {}
  /\ progressRecv = <<>>
  /\ errorRecv = <<>>
  /\ doneRecv = <<>>
  /\ doneClosedSeen = FALSE

C7_FatalParseFailureEndsRun ==
  [][/\ (readerPc = "parse" /\ HoldsFatalLine /\ readerPc' # readerPc) =>
          /\ readerPc' = "cancelCmd"
          /\ fatalErr' = Outcome[curLine.id].err
          /\ Ready("Error") => errorRecv' = Append(errorRecv, Outcome[curLine.id].err)
     /\ (readerPc = "cancelCmd" /\ readerPc' # readerPc) =>
          /\ readerPc' = "cleanUp"
          /\ procState' # "running"
     /\ fatalErr # "none" =>
          /\ readerPc' \notin {"read", "parse"}
          /\ curLine' = curLine
          /\ fatalErr' = fatalErr]_vars

\* C7 witness: a malformed frame value ended the run although a later line
\* had been written: the consumer got ErrFrameNumber, the subprocess is
\* gone and cleanUp has finished.
C7_Witness ==
  /\ fatalErr = ErrFrameNumber
  /\ errorRecv = <<ErrFrameNumber>>
  /\ procState = "exited"
  /\ readerPc = "done"
  /\ curLine.pos < emitted

C9_RecordsInEmissionOrder ==
  /\ \A i, j \in 1..Len(progressRecv) :
       (i < j /\ progressRecv[i].pos > 0 /\ progressRecv[j].pos > 0) =>
         progressRecv[i].pos < progressRecv[j].pos
  /\ \A i \in 1..Len(progressRecv) :
       progressRecv[i].pos > 0 =>
         /\ progressRecv[i].pos <= emitted
         /\ Outcome[progressRecv[i].id].err = "nil"

\* C9 witness: the consumer has received the records of two lines.
C9_Witness ==
  /\ Len(progressRecv) >= 2
  /\ progressRecv[1].pos > 0
  /\ progressRecv[2].pos > 0

\* C10: when Start has launched the subprocess, it returns only after the
\* subprocess has exited, and it returns the exit outcome: nil for a
\* successful exit and the error otherwise.
C10_StartReturnsExitOutcome ==
  (callerPc = "returned" /\ procState \notin {"notstarted", "failed"}) =>
    /\ procState = "exited"
    /\ startResult = exitErr
    /\ startResult \in {"nil", "err"}

\* C10 witness: Start has returned nil after a successful exit.
C10_Witness ==
  /\ callerPc = "returned"
  /\ procState = "exited"
  /\ exitErr = "nil"
  /\ startResult = "nil"

\* C11: when f.command.StderrPipe() fails, Start returns ErrStdErrPipe at
\* once: once Start has that result the caller has returned, no subprocess
\* was launched, no reader goroutine exists, no line was written, no file
\* was created or removed, and no channel was sent to or closed.
C11_StderrPipeFailureHasNoEffects ==
  startResult = ErrStdErrPipe =>
    /\ callerPc = "returned"
    /\ procState = "notstarted"
    /\ readerPc = "none"
    /\ emitted = 0
    /\ ~fileExists
    /\ removeCount = 0
    /\ \A c \in Chans : ~closed[c] /\ closeCount[c] = 0
    /\ progressRecv = <<>>
    /\ errorRecv = <<>>
    /\ doneRecv = <<>>
    /\ ~doneClosedSeen

\* Start has returned ErrStdErrPipe while a consumer waits on all channels.
C11_Witness ==
  /\ startResult = ErrStdErrPipe
  /\ callerPc = "returned"
  /\ listening = Chans

\* The reader's step from position pc executes a send statement on c.
SendsOn(c) ==
  \/ c = "Progress" /\ readerPc = "parse" /\ Outcome[curLine.id].err = "nil"
  \/ c = "Progress" /\ readerPc = "sendEmpty"
  \/ /\ c = "Error"
     /\ readerPc = "parse"
     /\ Outcome[curLine.id].err # "nil"
     /\ ~IsNoProgress(Outcome[curLine.id].err)
  \/ c = "Done" /\ readerPc \in {"sendFalse", "sendTrue"}

\* C20: no send statement on Progress, Error or Done is executed after
\* that channel has been closed: every step of the reader that leaves a
\* position holding a send on c starts in a state where c is open.
C20_NoSendOnClosedChannel ==
  [][\A c \in Chans : (SendsOn(c) /\ readerPc' # readerPc) => ~closed[c]]_vars

\* cleanUp has run to its end after delivering on Done and on Progress.
C20_Witness ==
  /\ readerPc = "done"
  /\ AllClosed
  /\ doneRecv = <<TRUE>>
  /\ progressRecv # <<>>

\* newProgress has been called and has returned.
Called ==
  parseOut # NotCalled

\* The time token of the input is of the form HH:MM:SS.ff.
TimeWellFormed ==
  TimeOk(TimeVals[parseIn.time])

\* HH hours + MM minutes + SS.ff seconds for the time token of the input,
\* the fraction of the seconds kept.
ExactTime ==
  LET splitTime == Split(TimeVals[parseIn.time], ":")
  IN Atoi(splitTime[1]).val * Hour + Atoi(splitTime[2]).val * Minute
     + (ParseFloat(splitTime[3]).val * Second) \div FloatScale

\* C13: a record newProgress returns for a line whose time field is
\* HH:MM:SS.ff carries exactly HH hours + MM minutes + SS.ff seconds as its
\* elapsed time (01:02:03.50 gives 1h2m3.5s).
C13_TimeKeepsFraction ==
  (Called /\ parseOut.err = "nil" /\ TimeWellFormed) => parseOut.Time = ExactTime

\* Every field of the input but bitrate and speed has a value that
\* converts, and the line has the layout with all nine fields.
OtherwiseWellFormed ==
  /\ parseIn.layout = "full"
  /\ parseIn.frame = 1
  /\ parseIn.fps = 1
  /\ parseIn.q = 1
  /\ parseIn.size = 1
  /\ TimeWellFormed
  /\ parseIn.dup = 1
  /\ parseIn.drop = 1
  /\ BitrateVals[parseIn.bitrate] \in {BitrateVals[1], NotAvailable}
  /\ SpeedVals[parseIn.speed] \in {SpeedVals[1], NotAvailable}

\* C14: an otherwise well-formed line whose bitrate or speed is "N/A" is
\* parsed into a record, with that field zero.
C14_NotAvailableParsesAsZero ==
  (Called /\ OtherwiseWellFormed) =>
    /\ parseOut.err = "nil"
    /\ BitrateVals[parseIn.bitrate] = NotAvailable => parseOut.Bitrate = Float(0)
    /\ SpeedVals[parseIn.speed] = NotAvailable => parseOut.Speed = Float(0)

\* C15: whenever the elapsed time of a returned record is zero, percent
\* complete has been replaced by 0.01 and the time-remaining computation
\* has not divided by zero.
C15_NoZeroDivisor ==
  (Called /\ parseOut.err = "nil" /\ parseOut.Time = 0) =>
    /\ parseOut.PercentComplete = Float(FloatScale \div 100)
    /\ ~parseOut.zeroDivisor

\* The line "frame=  100 fps= 25 q=28.0 size=    2048KiB time=00:00:10.00
\* bitrate= 512.0kbit/s speed=1.02x" parsed with a total duration of 100
\* seconds.
IsScenario ==
  /\ parseIn.layout = "nodup"
  /\ parseIn.frame = 1
  /\ parseIn.fps = 1
  /\ parseIn.q = 1
  /\ parseIn.size = 1
  /\ parseIn.time = 1
  /\ parseIn.bitrate = 1
  /\ parseIn.speed = 1
  /\ parseIn.duration = 100 * Second

\* C16: the scenario line without dup and drop yields a record with
\* frame=100, fps=25, q=28, size=2048, bitrate=512, speed=1.02,
\* elapsed=10s and percentComplete=10, not a parse failure.
C16_ScenarioYieldsRecord ==
  (Called /\ IsScenario) =>
    /\ parseOut.err = "nil"
    /\ parseOut.Frame = 100
    /\ parseOut.FPS = Float(25 * FloatScale)
    /\ parseOut.Q = Float(28 * FloatScale)
    /\ parseOut.Size = Float(2048 * FloatScale)
    /\ parseOut.Bitrate = Float(512 * FloatScale)
    /\ parseOut.Speed = Float(FloatScale + 2 * (FloatScale \div 100))
    /\ parseOut.Time = 10 * Second
    /\ parseOut.PercentComplete = Float(10 * FloatScale)

\* The failure kinds of the nine fields, in the order frame, fps, q, size,
\* time, bitrate, dup, drop, speed.
FieldOrder ==
  <<ErrFrameNumber, ErrFPS, ErrQ, ErrSize, ErrTime, ErrBitrate, ErrDup,
    ErrDrop, ErrSpeed>>

\* For each field in that order: the value the input line carries for it
\* converts.
FieldConverts ==
  <<Atoi(FrameVals[parseIn.frame]).ok,
    ParseFloat(FPSVals[parseIn.fps]).ok,
    ParseFloat(QVals[parseIn.q]).ok,
    ParseFloat(TrimRight(SizeVals[parseIn.size], CutsetKiB)).ok,
    TimeWellFormed,
    ParseFloat(TrimRight(BitrateVals[parseIn.bitrate], CutsetKbits)).ok,
    Atoi(DupVals[parseIn.dup]).ok,
    Atoi(DropVals[parseIn.drop]).ok,
    ParseFloat(TrimRight(SpeedVals[parseIn.speed], CutsetX)).ok>>

\* C17: for a line with all nine fields, newProgress of progress.go
\* returns a record exactly when every field converts, and otherwise the
\* failure kind of the first field, in the order frame, fps, q, size, time,
\* bitrate, dup, drop, speed, that does not convert.
C17_FirstFailingFieldReported ==
  (Called /\ parseIn.rev = "fixed" /\ parseIn.layout = "full") =>
    LET failed == {i \in DOMAIN FieldOrder : ~FieldConverts[i]}
    IN IF failed = {}
         THEN parseOut.err = "nil"
         ELSE parseOut.err = FieldOrder[CHOOSE i \in failed : \A j \in failed : i <= j]

\* A line whose time and bitrate both fail to convert was reported as a
\* time failure.
C17_Witness ==
  /\ Called
  /\ parseIn.rev = "fixed"
  /\ parseIn.layout = "full"
  /\ ~FieldConverts[5]
  /\ ~FieldConverts[6]
  /\ parseOut.err = ErrTime

\* C18: newProgress of progress.go returns ErrWrongNumberOfFields for every
\* line that starts with "frame=" and does not have exactly 18 tokens (14
\* without dup and drop, 20 with the elapsed field), whatever its fields
\* hold.
C18_WrongTokenCountRejected ==
  (Called /\ parseIn.rev = "fixed" /\ parseIn.layout \in {"nodup", "extra"}) =>
    parseOut.err = ErrWrongNumberOfFields

\* A line without dup and drop whose frame value does not convert was
\* rejected for its number of fields.
C18_Witness ==
  /\ Called
  /\ parseIn.rev = "fixed"
  /\ parseIn.layout = "nodup"
  /\ ~FieldConverts[1]
  /\ parseOut.err = ErrWrongNumberOfFields

\* C12: a NewFfmpeg call that returns an error returns no orchestrator,
\* has not launched the transcoding subprocess, and leaves the destination
\* directory as it found it: what the call created is not left behind.
C12_FailedConstructionLeavesNothing ==
  (ctor.pc = "returned" /\ ctor.err # "nil") =>
    /\ ~ctor.orchestrator
    /\ procState = "notstarted"
    /\ ctor.dirExists = ctor.env.dirExisted

CancelledAfterSuccess ==
  exitErr = "nil" /\ cancelled /\ ~cancelledWhileRunning

\* C21: when the subprocess has exited successfully and the token is
\* triggered only afterwards, cleanUp does not remove the finished
\* destination file and does not send false on Done.
C21_LateCancelKeepsFile ==
  CancelledAfterSuccess =>
    /\ removeCount = 0
    /\ fileExists
    /\ \A i \in 1..Len(doneRecv) : doneRecv[i] # FALSE

\* C22: a true received on Done implies that the subprocess was launched,
\* that the reader did not terminate it because of a parse failure, and
\* that it exited without error.
C22_DoneTrueMeansNormalFinish ==
  (\E i \in 1..Len(doneRecv) : doneRecv[i] = TRUE) =>
    /\ procState = "exited"
    /\ fatalErr = "none"
    /\ exitErr = "nil"

\* The consumer has received false from Done, by a send or as the zero
\* value of the closed channel.
ReceivedFalse ==
  (\E i \in 1..Len(doneRecv) : doneRecv[i] = FALSE) \/ doneClosedSeen

\* C23: in a run whose token was triggered while the subprocess ran, the
\* destination file is already gone whenever the consumer has received
\* false from Done, sent or by close.
C23_RemovedBeforeNotCompleted ==
  (cancelledWhileRunning /\ ReceivedFalse) => ~fileExists

\* The subprocess had created the file, the token was triggered while it
\* ran, and the consumer has just been sent false: cleanUp has removed the
\* file and has not closed a channel yet.
C23_Witness ==
  /\ cancelledWhileRunning
  /\ outputOpened
  /\ removeCount = 1
  /\ doneRecv = <<FALSE>>
  /\ readerPc = "closeProgress"
  /\ ~fileExists

\* C24: every value delivered on Done, and every error delivered on Error,
\* is the first one of the run on its channel and is delivered while the
\* channel is still open.
C24_OneDoneOneErrorBeforeClose ==
  [][/\ doneRecv' # doneRecv =>
          doneRecv = <<>> /\ Len(doneRecv') = 1 /\ ~closed["Done"]
     /\ errorRecv' # errorRecv =>
          errorRecv = <<>> /\ Len(errorRecv') = 1 /\ ~closed["Error"]]_vars

\* The consumer was sent one error and one value on Done, and the three
\* channels are closed.
C24_Witness ==
  /\ Len(errorRecv) = 1
  /\ Len(doneRecv) = 1
  /\ AllClosed

\* C25: every value the consumer has received from a send on Progress is
\* the record of a line the subprocess wrote and newProgress parsed
\* successfully.
C25_OnlyParsedRecordsDelivered ==
  \A i \in 1..Len(progressRecv) :
    /\ progressRecv[i].pos \in 1..emitted
    /\ Outcome[progressRecv[i].id].err = "nil"

=============================================================================
